---- MODULE Spec2Model ----
(***************************************************************************)
(* Model of the trust-graph core of "Final Project/src/main.rs":           *)
(*   construct_graph   (records, generation) -> (Graph, last_transac)      *)
(*   modified_dijkstra (graph, start_node)   -> HashMap<i32, f64>          *)
(*                                                                         *)
(* f64 costs are modelled exactly as integer multiples of 1/Scale.  Every  *)
(* rating r used by the model has (r + 11) dividing Scale, so the weight   *)
(* 1.0 / (r + 11) is the integer Scale \div (r + 11).  The ratings of the  *)
(* exhaustive input families give the weights 1/2 and 1/4, whose sums are  *)
(* exact in f64 as well; the ratings of the repository's test graph give   *)
(* 1/16, 1/21, 1/13 and 1/12, whose comparisons in that graph are far from *)
(* a tie.  f64::INFINITY is the value INFINITY, above every finite cost.   *)
(***************************************************************************)
EXTENDS Integers, Sequences, FiniteSets, Bags, TLC

VARIABLES
    records,         \* construct_graph: the records slice
    generation,      \* construct_graph: the generation argument
    end_index,       \* construct_graph: local end_index (0 before it is computed)
    graph,           \* Graph.nodes: source -> sequence of Edge
    last_transac,    \* construct_graph: second component of the result
    pc,              \* "build", "built", "loop", "edges", "done"
    start_node,      \* modified_dijkstra: the start_node argument
    dist,            \* modified_dijkstra: dist, actor -> (cost, count)
    heap,            \* modified_dijkstra: the BinaryHeap, a bag of State
    cur,             \* the State bound by `while let Some(State {..}) = heap.pop()`
    idx,             \* position of `for edge in edges` (1-based)
    average_scores,  \* modified_dijkstra: the returned map
    expanded,        \* history: bag of the actors whose pop passed the stale check
                     \* (an actor is counted at most twice: once, or more than once)
    prev             \* history: results of the earlier calls on this graph and start

vars == <<records, generation, end_index, graph, last_transac, pc, start_node,
          dist, heap, cur, idx, average_scores, expanded, prev>>

----------------------------------------------------------------------------
(* Bounds of the input families *)

MaxEdges == 3
MaxRecords == 6
MaxEdgesAny == 2
MaxEdgesSmall == 2
MaxCalls == 2
CostFloor == 2

Actors == 0 .. 2
ActorsAny == 0 .. 1
Generations == 1 .. 3

\* ratings -9 and -7: weights 1/2 and 1/4
RatingSet == {-9, -7}
\* -12: weight -1;  -11: weight 1/0 = +inf;  -7: weight 1/4;  17: weight 1/28
RatingSetAny == {-12, -11, -7, 17}

----------------------------------------------------------------------------
(* f64 arithmetic on costs, in units of 1/Scale *)

Scale == 16 * 21 * 13

INFINITY == 1000000000

Abs(x) == IF x < 0 THEN -x ELSE x

RECURSIVE Gcd(_, _)
Gcd(a, b) == IF b = 0 THEN a ELSE Gcd(b, a % b)

\* (edge.trust_score + 11) as f64, then 1.0 / it
Weight(r) ==
    LET d == r + 11
    IN  IF d = 0 THEN INFINITY
        ELSE IF d > 0 THEN Scale \div d
        ELSE -(Scale \div (-d))

\* cost + weight
F64Add(a, b) == IF a = INFINITY \/ b = INFINITY THEN INFINITY ELSE a + b

\* total_cost / count as f64: the exact quotient, as a reduced fraction
F64Div(total_cost, count) ==
    LET n == total_cost
        d == Scale * count
        g == Gcd(Abs(n), d)
    IN  [num |-> n \div g, den |-> d \div g]

----------------------------------------------------------------------------
(* Graph *)

EmptyGraph == <<>>

Edge(target, trust_score) == [target |-> target, trust_score |-> trust_score]

AddEdge(nodes, source, target, trust_score) ==
    IF source \in DOMAIN nodes
    THEN [nodes EXCEPT ![source] = Append(@, Edge(target, trust_score))]
    ELSE nodes @@ (source :> <<Edge(target, trust_score)>>)

\* graph.nodes.get(&position): the edges, or none
Edges(nodes, position) ==
    IF position \in DOMAIN nodes THEN nodes[position] ELSE <<>>

----------------------------------------------------------------------------
(* construct_graph *)

EndIndexTwiceThird(len, gen) ==
    IF gen = 1 THEN len \div 3
    ELSE IF gen = 2 THEN (len \div 3) * 2
    ELSE len

EndIndex(len, gen) ==
    LET e == IF gen = 1 THEN len \div 3
             ELSE IF gen = 2 THEN (len * 2) \div 3
             ELSE len
    IN  IF e < len THEN e ELSE len

RECURSIVE AddAll(_, _)
AddAll(nodes, recs) ==
    IF recs = <<>> THEN nodes
    ELSE AddAll(AddEdge(nodes, Head(recs).source, Head(recs).target, Head(recs).rating),
                Tail(recs))

LastTransacFirst(filtered) ==
    IF filtered # <<>> THEN filtered[1].time ELSE 0

LastTransac(filtered) ==
    IF filtered # <<>> THEN filtered[Len(filtered)].time ELSE 0

ConstructGraph ==
    /\ pc = "build"
    /\ IF records = <<>>
       THEN /\ graph' = EmptyGraph
            /\ last_transac' = 0
            /\ end_index' = end_index
       ELSE LET e == EndIndex(Len(records), generation)
                filtered == SubSeq(records, 1, e)
            IN  /\ end_index' = e
                /\ graph' = AddAll(EmptyGraph, filtered)
                /\ last_transac' = LastTransac(filtered)
    /\ pc' = "built"
    /\ UNCHANGED <<records, generation, start_node, dist, heap, cur, idx,
                   average_scores, expanded, prev>>

----------------------------------------------------------------------------
(* State and its ordering; the BinaryHeap *)

State(cost, position, node_count) ==
    [cost |-> cost, position |-> position, node_count |-> node_count]

NoState == State(0, 0, 0)

\* impl Ord for State compares cost alone, reversed: the heap's greatest
\* element is an entry of least cost, and entries of equal cost compare Equal,
\* so which of them pop() returns is left to the heap.
MinEntries(h) ==
    {e \in BagToSet(h) : \A f \in BagToSet(h) : ~(f.cost < e.cost)}

HeapPush(h, e) == h (+) SetToBag({e})

HeapPeek(h, e) == h

HeapPop(h, e) == h (-) SetToBag({e})

----------------------------------------------------------------------------
(* modified_dijkstra *)

Recorded(cost, count) == [cost |-> cost, count |-> count]

NeverStale(d, e) == FALSE

StaleOrEqual(d, e) ==
    /\ e.position \in DOMAIN d
    /\ e.cost >= d[e.position].cost

\* if let Some(&(current_dist, _)) = dist.get(&position) { if cost > current_dist
Stale(d, e) ==
    /\ e.position \in DOMAIN d
    /\ e.cost > d[e.position].cost

\* dist.entry(next_position).or_insert((f64::INFINITY, 0))
OrInsert(d, p) ==
    IF p \in DOMAIN d THEN d ELSE d @@ (p :> Recorded(INFINITY, 0))

IsBetterFirstOnly(d, p, next_cost) == p \notin DOMAIN d

IsBetterOrEqual(d, p, next_cost) == OrInsert(d, p)[p].cost >= next_cost

IsBetter(d, p, next_cost) == OrInsert(d, p)[p].cost > next_cost

NextCostNegated(cost, trust_score) == F64Add(cost, -Weight(trust_score))

NextCost(cost, trust_score) == F64Add(cost, Weight(trust_score))

\* for (node, (total_cost, count)) in dist { if count > 0 { ... } }
Emitted(d) == {n \in DOMAIN d : d[n].count > 0}

AverageScoresTotal(d) ==
    [n \in Emitted(d) |-> F64Div(d[n].cost, 1)]

AverageScores(d) ==
    [n \in Emitted(d) |-> F64Div(d[n].cost, d[n].count)]

\* the actors a record sequence names, and the start actor 0 of the tests
Mentioned(recs) ==
    {recs[i].source : i \in DOMAIN recs} \cup {recs[i].target : i \in DOMAIN recs}

Starts == Mentioned(records) \cup {0}

\* entry of modified_dijkstra, lines 117-122
Enter(s) ==
    /\ start_node' = s
    /\ dist' = (s :> Recorded(0, 1))
    /\ heap' = HeapPush(EmptyBag, State(0, s, 1))
    /\ cur' = NoState
    /\ idx' = 1
    /\ average_scores' = <<>>
    /\ expanded' = EmptyBag
    /\ pc' = "loop"

CallDijkstra(s) ==
    /\ pc = "built"
    /\ Enter(s)
    /\ UNCHANGED <<records, generation, end_index, graph, last_transac, prev>>

\* while let Some(State { cost, position, node_count }) = heap.pop()
Pop ==
    /\ pc = "loop"
    /\ heap # EmptyBag
    /\ \E e \in MinEntries(heap) :
         /\ heap' = HeapPop(heap, e)
         /\ cur' = e
         /\ IF Stale(dist, e)
            THEN /\ pc' = "loop"
                 /\ UNCHANGED <<idx, expanded>>
            ELSE /\ pc' = "edges"
                 /\ idx' = 1
                 /\ expanded' = IF CopiesIn(e.position, expanded) >= 2
                                THEN expanded
                                ELSE expanded (+) SetToBag({e.position})
    /\ UNCHANGED <<records, generation, end_index, graph, last_transac, start_node,
                   dist, average_scores, prev>>

\* one iteration of `for edge in edges`
RelaxEdge ==
    /\ pc = "edges"
    /\ idx <= Len(Edges(graph, cur.position))
    /\ LET edge == Edges(graph, cur.position)[idx]
           next_cost == NextCost(cur.cost, edge.trust_score)
           next_position == edge.target
           next_node_count == cur.node_count + 1
           is_better == IsBetter(dist, next_position, next_cost)
       IN  IF is_better
           THEN /\ dist' = [OrInsert(dist, next_position) EXCEPT
                               ![next_position] = Recorded(next_cost, next_node_count)]
                /\ heap' = HeapPush(heap, State(next_cost, next_position, next_node_count))
           ELSE /\ dist' = OrInsert(dist, next_position)
                /\ heap' = heap
    /\ idx' = idx + 1
    /\ UNCHANGED <<records, generation, end_index, graph, last_transac, pc, start_node,
                   cur, average_scores, expanded, prev>>

\* the edges of the popped actor are exhausted (or it has none)
EndEdges ==
    /\ pc = "edges"
    /\ idx > Len(Edges(graph, cur.position))
    /\ pc' = "loop"
    /\ UNCHANGED <<records, generation, end_index, graph, last_transac, start_node,
                   dist, heap, cur, idx, average_scores, expanded, prev>>

\* heap.pop() returns None: the post-pass and the return
Finish ==
    /\ pc = "loop"
    /\ heap = EmptyBag
    /\ average_scores' = AverageScores(dist)
    /\ pc' = "done"
    /\ UNCHANGED <<records, generation, end_index, graph, last_transac, start_node,
                   dist, heap, cur, idx, expanded, prev>>

\* a further call of modified_dijkstra on the same graph and start_node
CallAgain ==
    /\ pc = "done"
    /\ Len(prev) + 1 < MaxCalls
    /\ prev' = Append(prev, [scores |-> average_scores, dist |-> dist])
    /\ Enter(start_node)
    /\ UNCHANGED <<records, generation, end_index, graph, last_transac>>

\* the run is cut once a recorded cost falls below -CostFloor
AboveFloor == \A n \in DOMAIN dist : dist[n].cost >= -(CostFloor * Scale)

----------------------------------------------------------------------------
(* Inputs *)

SeqsUpTo(S, n) == UNION {[1 .. k -> S] : k \in 0 .. n}

Rec(source, target, rating, time) ==
    [source |-> source, target |-> target, rating |-> rating, time |-> time]

\* tests::create_test_graph
TestGraphRecords ==
    << Rec(0, 1, 5, 100), Rec(0, 2, 10, 100), Rec(1, 2, 2, 100), Rec(2, 0, 1, 100) >>

\* tests::test_graph_construction
TestConstructionRecords ==
    << Rec(1, 2, 3, 100), Rec(2, 3, 4, 200) >>

\* actors 1 and 3 are queued at the same cost 1/2 with hop counts 2 and 3,
\* and both reach actor 4 at cost 1
TieRecords ==
    << Rec(0, 1, -9, 100), Rec(0, 2, -7, 100), Rec(2, 3, -7, 100),
       Rec(1, 4, -9, 100), Rec(3, 4, -9, 100) >>

\* as TieRecords, but actor 3 reaches actor 4 at the lower cost 3/4
TieImproveRecords ==
    << Rec(0, 1, -9, 100), Rec(0, 2, -7, 100), Rec(2, 3, -7, 100),
       Rec(1, 4, -9, 100), Rec(3, 4, -7, 100) >>

EdgeRecords == [source : Actors, target : Actors, rating : RatingSet, time : {100}]

EdgeRecordsAny == [source : ActorsAny, target : ActorsAny, rating : RatingSetAny, time : {100}]

BuildRecords == [source : {1, 2}, target : {2}, rating : {3}, time : {100, 200}]

InitRest ==
    /\ end_index = 0
    /\ graph = EmptyGraph
    /\ last_transac = 0
    /\ pc = "build"
    /\ start_node = 0
    /\ dist = <<>>
    /\ heap = EmptyBag
    /\ cur = NoState
    /\ idx = 1
    /\ average_scores = <<>>
    /\ expanded = EmptyBag
    /\ prev = <<>>

\* main: generation = 3
Init ==
    /\ records \in SeqsUpTo(EdgeRecords, MaxEdges) \cup {TestGraphRecords}
    /\ generation = 3
    /\ InitRest

InitBuild ==
    /\ records \in SeqsUpTo(BuildRecords, MaxRecords) \cup {TestConstructionRecords}
    /\ generation \in Generations
    /\ InitRest

InitAny ==
    /\ records \in SeqsUpTo(EdgeRecordsAny, MaxEdgesAny)
    /\ generation = 3
    /\ InitRest

InitSmall ==
    /\ records \in SeqsUpTo(EdgeRecords, MaxEdgesSmall)
                     \cup {TestGraphRecords, TieRecords, TieImproveRecords}
    /\ generation = 3
    /\ InitRest

Next ==
    \/ ConstructGraph
    \/ \E s \in Starts : CallDijkstra(s)
    \/ Pop
    \/ RelaxEdge
    \/ EndEdges
    \/ Finish

NextAny ==
    \/ ConstructGraph
    \/ \E s \in Starts : CallDijkstra(s)
    \/ Pop
    \/ RelaxEdge /\ AboveFloor
    \/ EndEdges
    \/ Finish

NextPair ==
    \/ Next
    \/ CallAgain

Spec == Init /\ [][Next]_vars

\* the function is sequential and never suspended: a step that can be taken
\* is taken
LiveSpec == InitSmall /\ [][Next]_vars /\ WF_vars(Next)

SpecBuild == InitBuild /\ [][ConstructGraph]_vars

SpecAny == InitAny /\ [][NextAny]_vars

SpecPair == InitSmall /\ [][NextPair]_vars

----------------------------------------------------------------------------
(* Reference notions the properties are stated with.  They are defined on  *)
(* the graph alone, independently of the operators of modified_dijkstra.   *)

\* 1/(rating + 11) in units of 1/Scale, for a rating in [-10, 10]
PathWeight(rating) == Scale \div (rating + 11)

RatingsInRange ==
    \A a \in DOMAIN graph : \A i \in DOMAIN graph[a] :
        graph[a][i].trust_score \in -10 .. 10

RatingsAtLeastMinus11 ==
    \A a \in DOMAIN graph : \A i \in DOMAIN graph[a] :
        graph[a][i].trust_score >= -11

GraphActors ==
    DOMAIN graph \cup UNION {{graph[a][i].target : i \in DOMAIN graph[a]} : a \in DOMAIN graph}

\* the actors reachable from the set S by zero or more edges
RECURSIVE ReachFrom(_)
ReachFrom(S) ==
    LET N == S \cup UNION {{graph[a][i].target : i \in DOMAIN graph[a]} :
                              a \in S \cap DOMAIN graph}
    IN  IF N = S THEN S ELSE ReachFrom(N)

Reachable == ReachFrom({start_node})

\* the directed walks from start_node of at most k edges, each as
\* <<end actor, cost, number of edges>>
RECURSIVE Walks(_)
Walks(k) ==
    IF k = 0 THEN {<<start_node, 0, 0>>}
    ELSE LET W == Walks(k - 1)
         IN  W \cup UNION {{<<graph[w[1]][i].target,
                              w[2] + PathWeight(graph[w[1]][i].trust_score),
                              w[3] + 1>> : i \in DOMAIN graph[w[1]]} :
                           w \in {x \in W : x[1] \in DOMAIN graph}}

\* with positive weights a path of least cost repeats no actor, so walks of
\* fewer edges than there are actors contain every path of least cost
Paths == Walks(Cardinality(GraphActors \cup {start_node}) - 1)

PathsTo(v) == {w \in Paths : w[1] = v}

MinCost(v) == CHOOSE c \in {w[2] : w \in PathsTo(v)} :
                  \A w \in PathsTo(v) : c <= w[2]

\* the fraction q equals n/Scale divided by h
IsQuotient(q, n, h) == q.den > 0 /\ q.num * (Scale * h) = n * q.den

Zero == [num |-> 0, den |-> 1]

Running == pc \in {"loop", "edges", "done"}

RECURSIVE SumLen(_, _)
SumLen(nodes, S) ==
    IF S = {} THEN 0
    ELSE LET a == CHOOSE x \in S : TRUE
         IN  Len(nodes[a]) + SumLen(nodes, S \ {a})

\* the number of outgoing edges of the graph, parallel edges counted separately
TotalEdges == SumLen(graph, DOMAIN graph)

----------------------------------------------------------------------------
(* Properties *)

\* C1: with ratings in [-10, 10], when modified_dijkstra returns, every actor v
\* reachable from start has the value C(v) / H(v): C(v) the least cost of a
\* path from start to v, H(v) one more than the number of edges of some path
\* of cost C(v).  On the test graph from start 0, actor 1 gets (1/16)/2 = 1/32
\* and actor 2 gets (1/21)/2 = 1/42.
C1_AverageOfCheapestPath ==
    (pc = "done" /\ RatingsInRange) =>
        /\ \A v \in Reachable :
             /\ v \in DOMAIN average_scores
             /\ \E w \in PathsTo(v) :
                  /\ w[2] = MinCost(v)
                  /\ IsQuotient(average_scores[v], MinCost(v), 1 + w[3])
        /\ (records = TestGraphRecords /\ start_node = 0) =>
             /\ average_scores[1] = [num |-> 1, den |-> 32]
             /\ average_scores[2] = [num |-> 1, den |-> 42]

\* the test graph has been processed from start 0, the direct edge to actor 2
\* having beaten the path through actor 1
C1_Witness ==
    /\ pc = "done"
    /\ records = TestGraphRecords
    /\ start_node = 0
    /\ DOMAIN average_scores = {0, 1, 2}
    /\ dist[2] = Recorded(PathWeight(10), 2)

\* C2 (as stated): for any graph and any integer ratings the start's recorded
\* state stays (0.0, 1) throughout the run and the returned value is 0.0.
C2_StartNeverOverwritten ==
    /\ Running => (start_node \in DOMAIN dist /\ dist[start_node] = Recorded(0, 1))
    /\ pc = "done" => (start_node \in DOMAIN average_scores
                        /\ average_scores[start_node] = Zero)

\* C2 (amended): the same, for graphs whose ratings are all at least -11, so
\* that no edge cost is negative.
C2_StartKeptWithoutNegativeCost ==
    RatingsAtLeastMinus11 => C2_StartNeverOverwritten

\* a run has returned on a graph with a loop on the start actor and no
\* rating below -11
C2_Witness ==
    /\ pc = "done"
    /\ RatingsAtLeastMinus11
    /\ start_node \in DOMAIN graph
    /\ \E i \in DOMAIN graph[start_node] : graph[start_node][i].target = start_node
    /\ average_scores[start_node] = Zero

\* C3: with ratings in [-10, 10] the keys of the returned map are exactly the
\* actors reachable from start; a start without outgoing edges gives
\* {start: 0.0}.
C3_KeysAreReachable ==
    (pc = "done" /\ RatingsInRange) =>
        /\ DOMAIN average_scores = Reachable
        /\ Edges(graph, start_node) = <<>> => average_scores = (start_node :> Zero)

\* the map holds an actor that is only ever an edge target, and leaves out an
\* actor of the graph that start does not reach
C3_Witness ==
    /\ pc = "done"
    /\ \E v \in DOMAIN average_scores : v # start_node /\ v \notin DOMAIN graph
    /\ \E u \in GraphActors : u \notin DOMAIN average_scores

\* C4 (as stated): two runs on the same graph and start return identical
\* maps, whatever the order in which entries of equal cost are popped.
C4_RunsAgree ==
    pc = "done" => \A i \in DOMAIN prev : prev[i].scores = average_scores

\* C4 (amended): two runs on the same graph and start return maps with the
\* same keys and record the same cumulative cost for every key; the hop
\* count, and with it the value, may differ between them.
C4_RunsAgreeOnKeysAndCosts ==
    pc = "done" =>
        \A i \in DOMAIN prev :
            /\ DOMAIN prev[i].scores = DOMAIN average_scores
            /\ DOMAIN prev[i].dist = DOMAIN dist
            /\ \A v \in DOMAIN dist : prev[i].dist[v].cost = dist[v].cost

\* two runs have returned that recorded different hop counts for an actor
C4_Witness ==
    /\ pc = "done"
    /\ prev # <<>>
    /\ DOMAIN prev[1].dist = DOMAIN dist
    /\ \E v \in DOMAIN dist :
         /\ prev[1].dist[v].cost = dist[v].cost
         /\ prev[1].dist[v].count # dist[v].count

\* C5: with ratings in [-10, 10] the main loop terminates: the heap becomes
\* empty and the function returns.
C5_Terminates == <>(pc = "done" /\ heap = EmptyBag)

\* a run has returned on a graph with a cycle of two actors through start
C5_Witness ==
    /\ pc = "done"
    /\ heap = EmptyBag
    /\ start_node \in DOMAIN graph
    /\ \E i \in DOMAIN graph[start_node] :
         LET b == graph[start_node][i].target
         IN  /\ b # start_node
             /\ b \in DOMAIN graph
             /\ \E j \in DOMAIN graph[b] : graph[b][j].target = start_node

\* C6 (as stated): for non-empty records the graph has as many edges as the
\* selected prefix has records, and last_time is the time of the last record
\* of that prefix.
C6_EdgesAndLastTime ==
    (pc = "built" /\ records # <<>>) =>
        /\ TotalEdges = end_index
        /\ end_index >= 1
        /\ last_transac = records[end_index].time

\* C6 (amended): ... and last_time is the time of the last record of that
\* prefix when the prefix is not empty, and 0 when it is empty.
C6_EdgesAndLastTimeOrZero ==
    (pc = "built" /\ records # <<>>) =>
        /\ TotalEdges = end_index
        /\ end_index >= 1 => last_transac = records[end_index].time
        /\ end_index = 0 => last_transac = 0

\* a proper, non-empty prefix was selected, it put two edges on one source and
\* its last record is not stamped like its first
C6_Witness ==
    /\ pc = "built"
    /\ end_index >= 2
    /\ end_index < Len(records)
    /\ \E a \in DOMAIN graph : Len(graph[a]) >= 2
    /\ last_transac # records[1].time

\* C7: the cutoff is floor(len/3), floor(2*len/3) or len for generation 1, 2
\* or 3; it lies in [0, len]; it does not decrease with the generation; and
\* generation 3 includes every record.
C7_Cutoff ==
    pc = "built" =>
        LET len == Len(records)
        IN  /\ generation = 1 => (3 * end_index <= len /\ len < 3 * end_index + 3)
            /\ generation = 2 => (3 * end_index <= 2 * len /\ 2 * len < 3 * end_index + 3)
            /\ generation = 3 => (end_index = len /\ TotalEdges = len)
            /\ 0 <= end_index /\ end_index <= len
            /\ EndIndex(len, 1) <= EndIndex(len, 2)
            /\ EndIndex(len, 2) <= EndIndex(len, 3)
            /\ EndIndex(len, generation) = end_index

\* generation 2 on five records selected three of them
C7_Witness ==
    /\ pc = "built"
    /\ generation = 2
    /\ Len(records) = 5
    /\ end_index = 3

\* C8: with ratings in [-10, 10] every recorded cost, every queued cost and
\* every returned value is >= 0.
C8_NonNegative ==
    RatingsInRange =>
        /\ \A n \in DOMAIN dist : dist[n].cost >= 0
        /\ \A e \in BagToSet(heap) : e.cost >= 0
        /\ \A v \in DOMAIN average_scores :
             average_scores[v].num >= 0 /\ average_scores[v].den > 0

\* a run has returned a value above 0
C8_Witness ==
    /\ pc = "done"
    /\ \E v \in DOMAIN average_scores : average_scores[v].num > 0

\* C9: a recorded state changes only as a pair, only in the relaxation of an
\* edge to that actor, only to (popped.cost + 1/(rating+11), popped.hop_count
\* + 1), and only when the actor had no recorded state or a strictly greater
\* recorded cost; and a popped entry of cost strictly greater than the
\* recorded cost of its actor is discarded: no edge is relaxed and no
\* recorded state changes.
C9_Step ==
    pc \in {"loop", "edges"} =>
        /\ \A a \in DOMAIN dist :
             /\ a \in DOMAIN dist'
             /\ dist'[a] # dist[a] =>
                  /\ pc = "edges" /\ idx <= Len(Edges(graph, cur.position))
                  /\ LET edge == Edges(graph, cur.position)[idx]
                     IN  /\ a = edge.target
                         /\ dist'[a] = Recorded(cur.cost + PathWeight(edge.trust_score),
                                                cur.node_count + 1)
                         /\ dist[a].cost > dist'[a].cost
        /\ \A a \in DOMAIN dist' \ DOMAIN dist :
             /\ pc = "edges" /\ idx <= Len(Edges(graph, cur.position))
             /\ LET edge == Edges(graph, cur.position)[idx]
                IN  /\ a = edge.target
                    /\ dist'[a] = Recorded(cur.cost + PathWeight(edge.trust_score),
                                           cur.node_count + 1)
        /\ (pc = "loop" /\ heap' # heap /\ cur'.position \in DOMAIN dist
              /\ cur'.cost > dist[cur'.position].cost) =>
                  /\ pc' = "loop"
                  /\ dist' = dist
                  /\ heap' = heap (-) SetToBag({cur'})

C9_RecordedStateChanges == [][C9_Step]_vars

\* an edge was relaxed to an actor already recorded at exactly the candidate
\* cost by a path of another length, and the recorded state was kept
C9_Witness ==
    /\ pc = "edges"
    /\ idx > 1
    /\ idx - 1 <= Len(Edges(graph, cur.position))
    /\ LET edge == Edges(graph, cur.position)[idx - 1]
       IN  /\ edge.target \in DOMAIN dist
           /\ dist[edge.target].cost = cur.cost + PathWeight(edge.trust_score)
           /\ dist[edge.target].count # cur.node_count + 1

\* C10: with ratings in [-10, 10] every queued entry costs at least the
\* recorded cost of its actor; at most one queued entry of an actor costs
\* exactly that, and it carries the recorded hop count; and no actor passes
\* the stale check twice.
C10_RelaxedAtMostOnce ==
    (Running /\ RatingsInRange) =>
        /\ \A e \in BagToSet(heap) :
             /\ e.position \in DOMAIN dist
             /\ e.cost >= dist[e.position].cost
             /\ e.cost = dist[e.position].cost =>
                  /\ e.node_count = dist[e.position].count
                  /\ CopiesIn(e, heap) = 1
                  /\ \A f \in BagToSet(heap) :
                       (f.position = e.position /\ f.cost = e.cost) => f = e
        /\ \A a \in BagToSet(expanded) : CopiesIn(a, expanded) = 1

\* an entry of an actor whose edges were already relaxed has just been popped
\* and discarded as stale
C10_Witness ==
    /\ pc = "loop"
    /\ cur.position \in DOMAIN dist
    /\ cur.cost > dist[cur.position].cost
    /\ CopiesIn(cur.position, expanded) = 1

====
